---- MODULE Spec2Model ----
(***************************************************************************)
(* Model of the two n8n nodes of this repository:                          *)
(*   AmazonTextractOCR.execute        (src/unnamed/part_002, compiled      *)
(*                                     form in src/unnamed/part_000)       *)
(*   BedrockDocumentProcessor.execute (src/nodes/BedrockDocumentProcessor/ *)
(*                                     BedrockDocumentProcessor.node.ts)   *)
(* One behaviour is one call of execute on one batch.  Every await of an   *)
(* external service is one step; the services' answers are chosen freely.  *)
(* Strings the code inspects are sequences of one-character strings.       *)
(***************************************************************************)
EXTENDS Integers, Sequences, FiniteSets, TLC

\* ---------------------------------------------------------------- bounds
MaxItems == 2        \* records in one batch
MaxBlocks == 3       \* blocks in one document
MaxPages == 1        \* continuation pages the service hands out per job
MaxCallSecs == 2     \* seconds one status call may take
MaxSleepLag == 1     \* seconds a timer may fire late
MaxFetches == 3      \* result-page calls followed for one record

\* ------------------------------------------------------ program constants
PollIntervalSecs == 3        \* setTimeout(res, 3000)
DefaultTimeoutSecs == 120    \* (timeoutSeconds || 120)

\* ------------------------------------------------------------ JS values
Undefined == "undefined"

Truthy(s) == s # Undefined /\ s # ""

\* a startsWith that finds the prefix anywhere in the string
StartsWith_Anywhere(s, p) ==
    \E o \in 0..(Len(s) - Len(p)) : SubSeq(s, o + 1, o + Len(p)) = p

\* String.prototype.startsWith
StartsWith(s, p) == Len(s) >= Len(p) /\ SubSeq(s, 1, Len(p)) = p

\* index of the first "/" at or after position k, Len(s)+1 when there is none
RECURSIVE SlashAt(_, _)
SlashAt(s, k) ==
    IF k > Len(s) THEN Len(s) + 1
    ELSE IF s[k] = "/" THEN k
    ELSE SlashAt(s, k + 1)

\* s.split('/')[1]: the part between the first and the second "/"
SplitSecond(s) ==
    LET a == SlashAt(s, 1)
    IN IF a > Len(s) THEN Undefined
       ELSE SubSeq(s, a + 1, SlashAt(s, a + 1) - 1)

PdfMime == <<"a","p","p","l","i","c","a","t","i","o","n","/","p","d","f">>
ImagePrefix == <<"i","m","a","g","e","/">>
PngMime == ImagePrefix \o <<"p","n","g">>
JsonMime == <<"a","p","p","l","i","c","a","t","i","o","n","/","j","s","o","n">>
UpperPdfMime == <<"A","P","P","L","I","C","A","T","I","O","N","/","P","D","F">>
NestedImageMime == <<"x","/">> \o ImagePrefix

\* MIME types the batches are drawn from
MimeTypes == {PdfMime, PngMime, ImagePrefix, JsonMime, UpperPdfMime, NestedImageMime}

RECURSIVE SeqsUpTo(_, _)
SeqsUpTo(S, n) ==
    IF n = 0 THEN {<<>>}
    ELSE LET shorter == SeqsUpTo(S, n - 1)
         IN shorter \cup {Append(q, x) : q \in {r \in shorter : Len(r) = n - 1}, x \in S}

Modules == {"ocr", "bedrock"}
CredentialValues == {"ok", "noAccessKey", "noSecret", "null"}
BucketValues == {"", "bucket"}

\* ------------------------------------------------------ service answers
\* a Textract block: BlockType, and optionally Text and DetectedText
BlockValues ==
    { [BlockType |-> "LINE", Text |-> <<"a">>],
      [BlockType |-> "LINE", DetectedText |-> <<"b">>],
      [BlockType |-> "LINE", Text |-> <<>>, DetectedText |-> <<"b">>],
      [BlockType |-> "LINE"],
      [BlockType |-> "WORD", Text |-> <<"a">>],
      [Text |-> <<"a">>] }

LineA == [BlockType |-> "LINE", Text |-> <<"a">>]
LineB == [BlockType |-> "LINE", DetectedText |-> <<"b">>]

\* the ways to cut a block list into 1..k result pages
RECURSIVE SplitsOf(_, _)
SplitsOf(bl, k) ==
    IF k <= 1 THEN {<<bl>>}
    ELSE {<<bl>>} \cup
         UNION { { <<SubSeq(bl, 1, n)>> \o rest :
                     rest \in SplitsOf(SubSeq(bl, n + 1, Len(bl)), k - 1) } :
                 n \in 0..Len(bl) }

\* a document as the recognition service sees it: its result pages, each a block list
AllDocs == UNION {SplitsOf(bl, 1 + MaxPages) : bl \in SeqsUpTo(BlockValues, MaxBlocks)}
\* one document of two result pages
TwoPageDoc == <<<<LineA>>, <<LineB>>>>
NoDoc == <<<<>>>>

\* PDF and image/* are the types the OCR node sends to the service
Recognizable(fileType) == fileType = PdfMime \/ StartsWith(fileType, ImagePrefix)

\* An input record: whether the host resolves its file, its MIME type, and what the
\* recognition service finds in the file; endless marks a job for which the service
\* hands out a continuation token with every page
ItemValues(mod, docs, runaway) ==
    {[resolveOk |-> FALSE, fileType |-> PdfMime, pages |-> NoDoc]}
        \cup (IF runaway /\ mod = "ocr"
              THEN {[resolveOk |-> TRUE, fileType |-> PdfMime, pages |-> <<<<LineA>>>>,
                     endless |-> TRUE]}
              ELSE {})
        \cup {[resolveOk |-> TRUE, fileType |-> m, pages |-> NoDoc] :
                 m \in {t \in MimeTypes : mod = "bedrock" \/ ~Recognizable(t)}}
        \cup {[resolveOk |-> TRUE, fileType |-> PdfMime, pages |-> d] :
                 d \in {e \in docs : mod = "ocr"}}
        \cup {[resolveOk |-> TRUE, fileType |-> m, pages |-> <<d[1]>>] :
                 m \in {t \in MimeTypes : mod = "ocr" /\ StartsWith(t, ImagePrefix)},
                 d \in docs}

JobStatusValues == {"IN_PROGRESS", "SUCCEEDED", "FAILED", "PARTIAL_SUCCESS"}
JobIdValues == {"", "job"}

Ops == {"PutObject", "DeleteObject", "DetectDocumentText",
        "StartDocumentTextDetection", "GetStatus", "GetPage", "Converse"}

\* the error a failing call of service op throws
ServiceError(op) == [kind |-> "ServiceError", op |-> op]


\* ---------------------------------------------------- text extraction
\* a block text that prefers DetectedText
BlockTxt_DetectedFirst(b) ==
    IF "DetectedText" \in DOMAIN b THEN b.DetectedText
    ELSE IF "Text" \in DOMAIN b THEN b.Text
    ELSE <<>>

\* b.Text ?? b.DetectedText ?? ''
BlockTxt(b) ==
    IF "Text" \in DOMAIN b THEN b.Text
    ELSE IF "DetectedText" \in DOMAIN b THEN b.DetectedText
    ELSE <<>>

\* b.BlockType
BlockTypeOf(b) == IF "BlockType" \in DOMAIN b THEN b.BlockType ELSE Undefined

\* if (bt === 'LINE' && txt) lines.push(txt)
KeepsLine(b) == BlockTypeOf(b) = "LINE" /\ BlockTxt(b) # <<>>

\* for (const b of blocks) { ... lines.push(txt) }
RECURSIVE ExtractLines(_)
ExtractLines(blocks) ==
    IF blocks = <<>> THEN <<>>
    ELSE (IF KeepsLine(Head(blocks)) THEN <<BlockTxt(Head(blocks))>> ELSE <<>>)
             \o ExtractLines(Tail(blocks))

\* lines.join('\n')
RECURSIVE JoinLines(_)
JoinLines(lines) ==
    IF lines = <<>> THEN <<>>
    ELSE IF Len(lines) = 1 THEN lines[1]
    ELSE lines[1] \o <<"\n">> \o JoinLines(Tail(lines))

\* resp.Blocks ?? []
BlocksOf(resp) == IF "Blocks" \in DOMAIN resp THEN resp.Blocks ELSE <<>>

\* getResp.NextToken
NextTokenOf(resp) == IF "NextToken" \in DOMAIN resp THEN resp.NextToken ELSE Undefined

\* getResp.JobStatus
JobStatusOf(resp) == IF "JobStatus" \in DOMAIN resp THEN resp.JobStatus ELSE Undefined

\* a timeout that defaults only when it is not set: (timeoutSeconds ?? 120)
EffectiveTimeout_Nullish(t) == t

\* (timeoutSeconds || 120)
EffectiveTimeout(t) == IF t # 0 THEN t ELSE DefaultTimeoutSecs

\* the key under which record k is uploaded (timestamp and uuid make it unique)
KeyOf(k) == "key-" \o ToString(k)

\* ------------------------------------------------------------- state
VARIABLES
    module,          \* which node's execute runs
    credentials,     \* what getCredentials('aws') returns
    s3Bucket,        \* node parameter
    timeoutSeconds,  \* node parameter
    continueOnFail,  \* this.continueOnFail()
    items,           \* this.getInputData()
    pc,              \* position in execute
    i,               \* loop index, 1-based; 0 before the loop
    returnData,      \* the output list being built
    result,          \* <<>> until execute returns, then <<returnData>>
    thrown,          \* <<>> or <<error>>: the error execute rejected with
    pending,         \* <<>> or <<error>>: thrown by catch, in flight through finally
    uploadedKey,
    jobId,
    elapsed,         \* Date.now() - startTime, in seconds
    iterStart,       \* elapsed when the running poll iteration passed the loop head
    jobStatus,
    getResp,
    allBlocks,
    nextToken,
    content,         \* the message content built for converse
    pagesServed,     \* result pages the service has handed out for the current record
    callCount,       \* callCount[k][op]: calls of op issued for record k
    deleteFailed,    \* the records whose delete-object call threw
    caught,          \* caught[k]: <<>>, or <<error>> once record k's catch block ran
    replies,         \* replies[k]: <<>>, or <<reply>> once record k's converse call answered
    s3               \* keys of the objects in the bucket

vars == <<module, credentials, s3Bucket, timeoutSeconds, continueOnFail, items, pc, i,
          returnData, result, thrown, pending, uploadedKey, jobId, elapsed, iterStart,
          jobStatus, getResp, allBlocks, nextToken, content, pagesServed, callCount,
          deleteFailed, caught, replies, s3>>

config == <<module, credentials, s3Bucket, timeoutSeconds, continueOnFail, items>>
pdfLocals == <<jobId, elapsed, iterStart, jobStatus, getResp, allBlocks, nextToken>>

InitLocals ==
    /\ i = 0
    /\ returnData = <<>>
    /\ result = <<>>
    /\ thrown = <<>>
    /\ pending = <<>>
    /\ uploadedKey = Undefined
    /\ jobId = Undefined
    /\ elapsed = 0
    /\ iterStart = 0
    /\ jobStatus = Undefined
    /\ getResp = <<>>
    /\ allBlocks = <<>>
    /\ nextToken = Undefined
    /\ content = <<>>
    /\ pagesServed = 0
    /\ callCount = [k \in 1..Len(items) |-> [op \in Ops |-> 0]]
    /\ deleteFailed = {}
    /\ caught = [k \in 1..Len(items) |-> <<>>]
    /\ replies = [k \in 1..Len(items) |-> <<>>]
    /\ s3 = {}

\* the batches of at most n records (docs: the documents among them), under each of
\* the given polling timeouts
InitWith(n, docs, timeouts, runaway) ==
    /\ module \in Modules
    /\ credentials \in CredentialValues
    /\ s3Bucket \in (IF module = "ocr" THEN BucketValues ELSE {""})
    /\ timeoutSeconds \in (IF module = "ocr" THEN timeouts ELSE {DefaultTimeoutSecs})
    /\ continueOnFail \in BOOLEAN
    /\ items \in SeqsUpTo(ItemValues(module, docs, runaway), n)
    /\ pc = "start"
    /\ InitLocals

Init == InitWith(MaxItems, {TwoPageDoc}, {-1, 1}, TRUE)

\* one record, every document
InitText == InitWith(1, AllDocs, {3}, FALSE)

\* one record, every timeout
InitPoll == InitWith(1, {TwoPageDoc}, {-1, 0, 1, 3, 4, 7}, FALSE)

Count(op) == [callCount EXCEPT ![i][op] = @ + 1]

\* leaving record i: the next iteration, or return [returnData]
Advance(rd) ==
    /\ returnData' = rd
    /\ thrown' = <<>>
    /\ IF i < Len(items)
       THEN pc' = "resolve" /\ i' = i + 1 /\ result' = <<>>
       ELSE pc' = "returned" /\ i' = i /\ result' = <<rd>>

\* for (let i = 0; i < items.length; i++), entered with nothing in returnData
EnterLoop ==
    /\ i' = 1
    /\ UNCHANGED <<returnData, thrown>>
    /\ IF Len(items) = 0
       THEN pc' = "returned" /\ result' = <<returnData>>
       ELSE pc' = "resolve" /\ result' = <<>>

\* execute rejects with err
Abort(err, rd) ==
    /\ pc' = "aborted"
    /\ thrown' = <<err>>
    /\ returnData' = rd
    /\ UNCHANGED <<i, result>>

ResetLocals ==
    /\ uploadedKey' = Undefined
    /\ jobId' = Undefined
    /\ elapsed' = 0
    /\ iterStart' = 0
    /\ jobStatus' = Undefined
    /\ getResp' = <<>>
    /\ allBlocks' = <<>>
    /\ nextToken' = Undefined
    /\ content' = <<>>
    /\ pagesServed' = 0


\* ------------------------------------------------------------- errors
ConfigError(what) == [kind |-> "Configuration", what |-> what]
ResolveError == [kind |-> "InputResolution"]
UnsupportedMime(fileType) == [kind |-> "UnsupportedMimeType", fileType |-> fileType]
JobStartError == [kind |-> "JobStart"]
JobIncomplete(status) == [kind |-> "JobIncomplete", jobStatus |-> status]
DeleteWarning(key) == [kind |-> "DeleteFailed", key |-> key]

Stay == UNCHANGED <<i, returnData, result, thrown, pending, caught>>

\* a catch block that never rethrows
CatchOutcome_AlwaysContinue(tolerant, rd, err) ==
    [returnData |-> Append(rd, [error |-> err]), pending |-> <<>>]

\* a catch block that always rethrows
CatchOutcome_AlwaysThrow(tolerant, rd, err) == [returnData |-> rd, pending |-> <<err>>]

\* catch (error) { if (continueOnFail) { push {error}; continue } throw ... }:
\* the output list and the error thrown on
CatchOutcome(tolerant, rd, err) ==
    IF tolerant
    THEN [returnData |-> Append(rd, [error |-> err]), pending |-> <<>>]
    ELSE [returnData |-> rd, pending |-> <<err>>]

\* the try block of record i threw err; the finally block runs next
OcrCatch(err) ==
    /\ pc' = "finally"
    /\ returnData' = CatchOutcome(continueOnFail, returnData, err).returnData
    /\ pending' = CatchOutcome(continueOnFail, returnData, err).pending
    /\ caught' = [caught EXCEPT ![i] = <<err>>]
    /\ UNCHANGED <<i, result, thrown>>

\* returnData.push({ json: { text: extractedText } })
PushText(blocks) ==
    /\ pc' = "finally"
    /\ returnData' = Append(returnData, [text |-> JoinLines(ExtractLines(blocks))])
    /\ UNCHANGED <<i, result, thrown, pending, caught>>

\* ---------------------------------------------- AmazonTextractOCR.execute
OcrSetup ==
    /\ pc = "start"
    /\ module = "ocr"
    /\ IF credentials # "ok"
       THEN Abort(ConfigError("credentials"), returnData)
       ELSE IF s3Bucket = ""
       THEN Abort(ConfigError("s3Bucket"), returnData)
       ELSE EnterLoop
    /\ UNCHANGED <<config, pending, uploadedKey, pdfLocals, content, pagesServed, callCount,
                   deleteFailed, replies, caught, s3>>

\* a routing with the two branches swapped
OcrRoute_Swapped(fileType) ==
    LET isPdf == fileType = PdfMime
        isImage == StartsWith(fileType, ImagePrefix)
    IN IF ~isPdf /\ ~isImage THEN "unsupported"
       ELSE IF isImage THEN "pdf"
       ELSE "image"

\* isPdf, isImage and the branch they select
OcrRoute(fileType) ==
    LET isPdf == fileType = PdfMime
        isImage == StartsWith(fileType, ImagePrefix)
    IN IF ~isPdf /\ ~isImage THEN "unsupported"
       ELSE IF isImage THEN "image"
       ELSE "pdf"

OcrResolve ==
    /\ pc = "resolve"
    /\ module = "ocr"
    /\ LET fileType == items[i].fileType
       IN IF ~items[i].resolveOk
          THEN OcrCatch(ResolveError) /\ UNCHANGED uploadedKey
          ELSE IF OcrRoute(fileType) = "unsupported"
          THEN OcrCatch(UnsupportedMime(fileType)) /\ UNCHANGED uploadedKey
          ELSE IF OcrRoute(fileType) = "image"
          THEN pc' = "detect" /\ Stay /\ UNCHANGED uploadedKey
          ELSE pc' = "put" /\ Stay /\ uploadedKey' = KeyOf(i)
    /\ UNCHANGED <<config, pdfLocals, content, pagesServed, callCount, deleteFailed,
                   replies, s3>>

\* the service never ends the page sequence of this record's job
Endless(item) == "endless" \in DOMAIN item

\* result page k of a record's job; the pages past the document are empty
PageOf(item, k) == IF k <= Len(item.pages) THEN item.pages[k] ELSE <<>>

\* the answers that carry result page k of record i's document: Blocks may be left out
\* when the page is empty, NextToken is set when more pages follow
PageResponses(k) ==
    LET page == PageOf(items[i], k)
        bodies == {[Blocks |-> page]} \cup (IF page = <<>> THEN {<<>>} ELSE {})
        toks == IF k < Len(items[i].pages) \/ Endless(items[i])
                THEN {[NextToken |-> "tok"]}
                ELSE {<<>>, [NextToken |-> ""]}
    IN {b @@ t : b \in bodies, t \in toks}

DetectText ==
    /\ pc = "detect"
    /\ callCount' = Count("DetectDocumentText")
    /\ \/ OcrCatch(ServiceError("DetectDocumentText")) /\ UNCHANGED pagesServed
       \/ \E resp \in PageResponses(1) :
             /\ pagesServed' = 1
             /\ PushText(BlocksOf(resp))
    /\ UNCHANGED <<config, uploadedKey, pdfLocals, content, deleteFailed, replies, s3>>

PutObject ==
    /\ pc = "put"
    /\ callCount' = Count("PutObject")
    /\ \/ OcrCatch(ServiceError("PutObject")) /\ UNCHANGED s3
       \/ pc' = "startJob" /\ Stay /\ s3' = s3 \cup {uploadedKey}
    /\ UNCHANGED <<config, uploadedKey, pdfLocals, content, pagesServed, deleteFailed,
                   replies>>

StartResponses == {<<>>} \cup {[JobId |-> j] : j \in JobIdValues}

StartJob ==
    /\ pc = "startJob"
    /\ callCount' = Count("StartDocumentTextDetection")
    /\ \/ OcrCatch(ServiceError("StartDocumentTextDetection")) /\ UNCHANGED jobId
       \/ \E resp \in StartResponses :
             /\ jobId' = (IF "JobId" \in DOMAIN resp THEN resp.JobId ELSE Undefined)
             /\ IF Truthy(jobId')
                THEN pc' = "poll" /\ Stay
                ELSE OcrCatch(JobStartError)
    /\ UNCHANGED <<config, uploadedKey, elapsed, iterStart, jobStatus, getResp, allBlocks,
                   nextToken, content, pagesServed, deleteFailed, replies, s3>>

\* a loop condition that still iterates at the deadline itself
PollContinues_Inclusive(el, t) == el <= (IF t # 0 THEN t ELSE DefaultTimeoutSecs)

\* Date.now() < timeoutAt, with timeoutAt = startTime + (timeoutSeconds || 120) * 1000
PollContinues(el, t) == el < EffectiveTimeout(t)

\* a break test that only knows FAILED
IsTerminal_OnlyFailed(status) == status = "FAILED"

\* jobStatus === 'SUCCEEDED' || jobStatus === 'FAILED'
IsTerminal(status) == status = "SUCCEEDED" \/ status = "FAILED"

\* a success test that only rejects FAILED
JobSucceeded_NotFailed(status) == status # "FAILED"

\* the negation of jobStatus !== 'SUCCEEDED'
JobSucceeded(status) == status = "SUCCEEDED"

\* while (Date.now() < timeoutAt) { await sleep(3000); ...
PollSleep ==
    /\ pc = "poll"
    /\ PollContinues(elapsed, timeoutSeconds)
    /\ \E lag \in 0..MaxSleepLag : elapsed' = elapsed + PollIntervalSecs + lag
    /\ iterStart' = elapsed
    /\ pc' = "pollGet"
    /\ Stay
    /\ UNCHANGED <<config, uploadedKey, jobId, jobStatus, getResp, allBlocks, nextToken,
                   content, pagesServed, callCount, deleteFailed, replies, s3>>

\* the loop condition is false: the loop ends without a break
PollTimeout ==
    /\ pc = "poll"
    /\ ~PollContinues(elapsed, timeoutSeconds)
    /\ pc' = "polled"
    /\ Stay
    /\ UNCHANGED <<config, uploadedKey, pdfLocals, content, pagesServed, callCount,
                   deleteFailed, replies, s3>>

\* what one status call may answer; the first result page comes with SUCCEEDED
StatusResponses ==
    {<<>>}
        \cup {[JobStatus |-> st] : st \in JobStatusValues \ {"SUCCEEDED"}}
        \cup {[JobStatus |-> "SUCCEEDED"] @@ r : r \in PageResponses(1)}

\* ... getResp = await send(GetDocumentTextDetection); if terminal break }
PollGet ==
    /\ pc = "pollGet"
    /\ callCount' = Count("GetStatus")
    /\ \E d \in 0..MaxCallSecs : elapsed' = elapsed + d
    /\ \/ /\ OcrCatch(ServiceError("GetStatus"))
          /\ UNCHANGED <<getResp, jobStatus, pagesServed>>
       \/ \E resp \in StatusResponses :
             /\ getResp' = resp
             /\ jobStatus' = JobStatusOf(resp)
             /\ pagesServed' = (IF jobStatus' = "SUCCEEDED" THEN 1 ELSE pagesServed)
             /\ pc' = (IF IsTerminal(jobStatus') THEN "polled" ELSE "poll")
             /\ Stay
    /\ UNCHANGED <<config, uploadedKey, jobId, iterStart, allBlocks, nextToken, content,
                   deleteFailed, replies, s3>>

\* if (jobStatus !== 'SUCCEEDED') throw ...; first page of the result
AfterPoll ==
    /\ pc = "polled"
    /\ IF ~JobSucceeded(jobStatus)
       THEN OcrCatch(JobIncomplete(jobStatus)) /\ UNCHANGED <<allBlocks, nextToken>>
       ELSE /\ allBlocks' = BlocksOf(getResp)
            /\ nextToken' = NextTokenOf(getResp)
            /\ IF Truthy(nextToken')
               THEN pc' = "paginate" /\ Stay
               ELSE PushText(allBlocks')
    /\ UNCHANGED <<config, uploadedKey, jobId, elapsed, iterStart, jobStatus, getResp,
                   content, pagesServed, callCount, deleteFailed, replies, s3>>

\* a page loop that keeps only the last page
Accumulate_Replace(all, resp) == BlocksOf(resp)

\* allBlocks.push(...(pageResp.Blocks ?? []))
Accumulate(all, resp) == all \o BlocksOf(resp)

\* while (nextToken) { pageResp = await send(...); allBlocks.push(...); nextToken = ... }
\* (the model follows at most MaxFetches page calls of one record)
PageFetch ==
    /\ pc = "paginate"
    /\ callCount[i]["GetPage"] < MaxFetches
    /\ callCount' = Count("GetPage")
    /\ \/ /\ OcrCatch(ServiceError("GetPage"))
          /\ UNCHANGED <<allBlocks, nextToken, pagesServed>>
       \/ \E resp \in PageResponses(pagesServed + 1) :
             /\ allBlocks' = Accumulate(allBlocks, resp)
             /\ nextToken' = (IF Truthy(NextTokenOf(resp)) THEN NextTokenOf(resp)
                              ELSE Undefined)
             /\ pagesServed' = pagesServed + 1
             /\ IF Truthy(nextToken')
                THEN pc' = "paginate" /\ Stay
                ELSE PushText(allBlocks')
    /\ UNCHANGED <<config, uploadedKey, jobId, elapsed, iterStart, jobStatus, getResp,
                   content, deleteFailed, replies, s3>>

\* a cleanup that is skipped once the catch block has run
NeedsCleanup_SkipOnError(key) == key # Undefined /\ caught[i] = <<>>

\* a cleanup only of an object that is in the bucket
NeedsCleanup_OnlyIfStored(key) == key # Undefined /\ key \in s3

\* if (uploadedKey)
NeedsCleanup(key) == key # Undefined

\* a cleanup that reports its failure in either mode
CleanupWarnings_AnyMode(tolerant, deleted, key) ==
    IF ~deleted THEN <<[warning |-> DeleteWarning(key)]>> ELSE <<>>

\* catch (e) { if (continueOnFail) push {warning} }: the records a cleanup adds
CleanupWarnings(tolerant, deleted, key) ==
    IF ~deleted /\ tolerant THEN <<[warning |-> DeleteWarning(key)]>> ELSE <<>>

\* a cleanup whose failure is thrown on
CompletionAfterCleanup_Rethrow(pend, deleted) ==
    IF deleted THEN pend ELSE <<ServiceError("DeleteObject")>>

\* what the try statement completes with after the cleanup: the inner catch swallows a
\* delete failure, so the error thrown by the catch block (if any) stays in flight
CompletionAfterCleanup(pend, deleted) == pend

\* a delete-object call that removes nothing
AfterDelete_Keeps(bucket, key, deleted) == bucket

\* the bucket after DeleteObjectCommand({ Bucket: s3Bucket, Key: uploadedKey })
AfterDelete(bucket, key, deleted) == IF deleted THEN bucket \ {key} ELSE bucket

\* finally { if (uploadedKey) { try { delete } catch { ... } } }, and then what the try
\* statement completes with: the next record, the return, or the error in flight
Finally ==
    /\ pc = "finally"
    /\ \E deleted \in BOOLEAN :
          IF NeedsCleanup(uploadedKey)
          THEN /\ callCount' = Count("DeleteObject")
               /\ s3' = AfterDelete(s3, uploadedKey, deleted)
               /\ deleteFailed' = (IF deleted THEN deleteFailed ELSE deleteFailed \cup {i})
               /\ LET rd == returnData \o CleanupWarnings(continueOnFail, deleted, uploadedKey)
                      err == CompletionAfterCleanup(pending, deleted)
                  IN IF err # <<>> THEN Abort(err[1], rd) ELSE Advance(rd)
          ELSE /\ deleted
               /\ UNCHANGED <<callCount, s3, deleteFailed>>
               /\ IF pending # <<>> THEN Abort(pending[1], returnData)
                  ELSE Advance(returnData)
    /\ pending' = <<>>
    /\ ResetLocals
    /\ UNCHANGED <<config, caught, replies>>

\* ------------------------------------- BedrockDocumentProcessor.execute
MessageText == <<"d","e","s","c","r","i","b","e">>

\* a converse reply: text is output.message.content[0].text when it is there
ReplyValues ==
    { [stopReason |-> "end_turn"],
      [text |-> <<>>, stopReason |-> "end_turn"],
      [text |-> <<"r">>, usage |-> [totalTokens |-> 1], stopReason |-> "end_turn"],
      [text |-> <<"r">>, usage |-> [totalTokens |-> 1]] }

\* catch (error) { if (continueOnFail) { push {error}; continue } throw ... }
BedrockCatch(err) ==
    /\ caught' = [caught EXCEPT ![i] = <<err>>]
    /\ LET out == CatchOutcome(continueOnFail, returnData, err)
       IN IF out.pending # <<>> THEN Abort(out.pending[1], out.returnData)
          ELSE Advance(out.returnData)

BedrockSetup ==
    /\ pc = "start"
    /\ module = "bedrock"
    /\ IF credentials = "null"
       THEN Abort([kind |-> "TypeError"], returnData)
       ELSE EnterLoop
    /\ UNCHANGED <<config, pending, uploadedKey, pdfLocals, content, pagesServed, callCount,
                   deleteFailed, replies, caught, s3>>

\* a content that sends every other file as a document part
BuildContent_DocumentByDefault(fileType) ==
    <<[text |-> MessageText]>>
        \o (IF StartsWith(fileType, ImagePrefix)
            THEN <<[image |-> [format |-> SplitSecond(fileType)]]>>
            ELSE <<[document |-> [format |-> "pdf", name |-> "document"]]>>)

\* const content = [{ text: message }]; plus the image or the document part
BuildContent(fileType) ==
    <<[text |-> MessageText]>>
        \o (IF StartsWith(fileType, ImagePrefix)
            THEN <<[image |-> [format |-> SplitSecond(fileType)]]>>
            ELSE IF fileType = PdfMime
            THEN <<[document |-> [format |-> "pdf", name |-> "document"]]>>
            ELSE <<>>)

BedrockBuild ==
    /\ pc = "resolve"
    /\ module = "bedrock"
    /\ IF ~items[i].resolveOk
       THEN BedrockCatch(ResolveError) /\ UNCHANGED <<content, pending>>
       ELSE pc' = "converse" /\ Stay /\ content' = BuildContent(items[i].fileType)
    /\ UNCHANGED <<config, uploadedKey, pdfLocals, pagesServed, callCount,
                   deleteFailed, replies, s3>>

\* a reply record with a placeholder in place of the '' default
ReplyRecord_Placeholder(reply) ==
    [response |-> IF "text" \in DOMAIN reply THEN reply.text ELSE <<"?">>,
     usage |-> IF "usage" \in DOMAIN reply THEN reply.usage ELSE <<>>,
     stopReason |-> IF "stopReason" \in DOMAIN reply THEN reply.stopReason ELSE Undefined]

\* response.output?.message?.content?.[0]?.text || '', usage || {}, stopReason
ReplyRecord(reply) ==
    [response |-> IF "text" \in DOMAIN reply THEN reply.text ELSE <<>>,
     usage |-> IF "usage" \in DOMAIN reply THEN reply.usage ELSE <<>>,
     stopReason |-> IF "stopReason" \in DOMAIN reply THEN reply.stopReason ELSE Undefined]

Converse ==
    /\ pc = "converse"
    /\ callCount' = Count("Converse")
    /\ \/ BedrockCatch(ServiceError("Converse")) /\ UNCHANGED replies
       \/ /\ credentials = "ok"
          /\ caught' = caught
          /\ \E reply \in ReplyValues :
                /\ replies' = [replies EXCEPT ![i] = <<reply>>]
                /\ Advance(Append(returnData, ReplyRecord(reply)))
    /\ content' = <<>>
    /\ UNCHANGED <<config, pending, uploadedKey, pdfLocals, pagesServed, deleteFailed, s3>>

\* ------------------------------------------------------- specification
Next ==
    \/ OcrSetup
    \/ OcrResolve
    \/ DetectText
    \/ PutObject
    \/ StartJob
    \/ PollSleep
    \/ PollTimeout
    \/ PollGet
    \/ AfterPoll
    \/ PageFetch
    \/ Finally
    \/ BedrockSetup
    \/ BedrockBuild
    \/ Converse

Spec == Init /\ [][Next]_vars
SpecText == InitText /\ [][Next]_vars
SpecPoll == InitPoll /\ [][Next]_vars

TypeOK ==
    /\ pc \in {"start", "resolve", "detect", "put", "startJob", "poll", "pollGet",
               "polled", "paginate", "finally", "converse", "returned", "aborted"}
    /\ i \in 0..(Len(items) + 1)
    /\ Len(result) <= 1 /\ Len(thrown) <= 1 /\ Len(pending) <= 1

\* ------------------------------------------------------------ claims
Records == 1..Len(items)

\* record k has left the loop body (its finally block included)
Done(k) == i >= 1 /\ (k < i \/ (k = i /\ pc \in {"returned", "aborted"}))

IsPdfRecord(k) == items[k].resolveOk /\ items[k].fileType = PdfMime

\* the MIME type begins with the six characters i m a g e /
HasImagePrefix(ft) ==
    /\ Len(ft) >= 6
    /\ ft[1] = "i" /\ ft[2] = "m" /\ ft[3] = "a" /\ ft[4] = "g" /\ ft[5] = "e" /\ ft[6] = "/"

IsImageRecord(k) == items[k].resolveOk /\ HasImagePrefix(items[k].fileType)

IsWarning(e) == "warning" \in DOMAIN e
IsText(e) == "text" \in DOMAIN e
IsError(e) == "error" \in DOMAIN e
NotWarning(e) == ~IsWarning(e)

\* the output list without its warning records
MainEntries(rd) == SelectSeq(rd, NotWarning)

NoCalls(k) == \A op \in Ops : callCount[k][op] = 0

\* C1: in the OCR node, a record whose MIME type is application/pdf gets at most one
\* put-object and at most one delete-object call at any time, and exactly one of each
\* once the record is finished, whatever happened in between and in both modes.
C1_OnePutOneDelete ==
    module = "ocr" =>
        \A k \in Records :
            IsPdfRecord(k) =>
                /\ callCount[k]["PutObject"] <= 1
                /\ callCount[k]["DeleteObject"] <= 1
                /\ Done(k) => /\ callCount[k]["PutObject"] = 1
                              /\ callCount[k]["DeleteObject"] = 1

\* a strict batch aborted by a failing page call of its second PDF record, whose
\* object was uploaded once and deleted once
C1_Witness ==
    /\ module = "ocr" /\ ~continueOnFail /\ pc = "aborted" /\ i = 2
    /\ IsPdfRecord(1) /\ IsPdfRecord(2)
    /\ thrown = <<ServiceError("GetPage")>>
    /\ callCount[2]["PutObject"] = 1 /\ callCount[2]["DeleteObject"] = 1

\* C2: Batch Runner policy of both nodes.  Once the per-record path of record k has
\* failed: in tolerant mode the k-th output record (warnings aside) is {error: message},
\* the batch is never aborted and returns only after its last record; in strict mode
\* the batch never goes past record k, no call is issued for a later record, nothing is
\* returned, and execute rejects with that message.
C2_BatchPolicy ==
    /\ continueOnFail /\ i >= 1 => pc # "aborted"
    /\ pc = "returned" => i >= Len(items) /\ result = <<returnData>>
    /\ pc # "returned" => result = <<>>
    /\ \A k \in Records :
          caught[k] # <<>> =>
              IF continueOnFail
              THEN /\ Len(MainEntries(returnData)) >= k
                   /\ MainEntries(returnData)[k] = [error |-> caught[k][1]]
                   /\ k < i => Len(MainEntries(returnData)) >= i - 1
              ELSE /\ i = k
                   /\ result = <<>>
                   /\ \A j \in Records : j > k => NoCalls(j)
                   /\ Done(k) => pc = "aborted" /\ thrown = caught[k]

\* a tolerant OCR batch whose first record failed and whose second record is being
\* uploaded
C2_Witness ==
    /\ module = "ocr" /\ continueOnFail /\ i = 2
    /\ caught[1] # <<>>
    /\ returnData[1] = [error |-> caught[1][1]]
    /\ callCount[2]["PutObject"] = 1

\* what C3 expects in the output list: one main record per input record, and right
\* after it one warning when the batch is tolerant and the record's deletion failed
RECURSIVE ExpectedKinds(_)
ExpectedKinds(k) ==
    IF k = 0 THEN <<>>
    ELSE ExpectedKinds(k - 1) \o <<"main">>
             \o (IF continueOnFail /\ k \in deleteFailed THEN <<"warning">> ELSE <<>>)

KindOf(e) ==
    IF IsWarning(e) THEN "warning"
    ELSE IF IsText(e) \/ IsError(e) THEN "main"
    ELSE "other"

\* C3: the list a completed OCR batch returns holds, per input record and in input
\* order, one {text} or {error} record, directly followed by one {warning} record
\* exactly when the batch is tolerant and that record's delete-object call failed.
C3_OutputShape ==
    module = "ocr" /\ pc = "returned" =>
        /\ [j \in 1..Len(returnData) |-> KindOf(returnData[j])] = ExpectedKinds(Len(items))
        /\ Len(returnData) = Len(items)
               + (IF continueOnFail THEN Cardinality(deleteFailed) ELSE 0)

\* a tolerant batch of two PDF records returned: the first deletion failed
C3_Witness ==
    /\ module = "ocr" /\ pc = "returned" /\ continueOnFail
    /\ Len(items) = 2 /\ deleteFailed = {1}
    /\ Len(returnData) = 3
    /\ IsText(returnData[1]) /\ IsWarning(returnData[2]) /\ IsError(returnData[3])

\* C4: a step in which the delete-object call of record i fails leaves the main output
\* records as they were, aborts the batch only with the error the catch block had
\* thrown, and adds one {warning} record in tolerant mode and nothing in strict mode.
C4_Step ==
    (i \in deleteFailed' /\ i \notin deleteFailed) =>
        /\ MainEntries(returnData') = MainEntries(returnData)
        /\ IF pending = <<>> THEN pc' # "aborted" /\ thrown' = <<>>
           ELSE pc' = "aborted" /\ thrown' = pending
        /\ IF continueOnFail
           THEN returnData' = Append(returnData, [warning |-> DeleteWarning(uploadedKey)])
           ELSE returnData' = returnData

\* C4: every step satisfies C4_Step
C4_DeleteFailureHarmless == [][C4_Step]_vars

\* a strict batch aborted with the status-call error although the deletion failed too
C4_Witness ==
    /\ module = "ocr" /\ ~continueOnFail /\ pc = "aborted"
    /\ i \in deleteFailed
    /\ thrown = <<ServiceError("GetStatus")>>
    /\ returnData = <<>>

\* all result pages in the order the service returns them
RECURSIVE Flatten(_)
Flatten(pages) == IF pages = <<>> THEN <<>> ELSE Head(pages) \o Flatten(Tail(pages))

\* the text of a block: its Text field, DetectedText when Text is absent
FieldText(b) ==
    CASE "Text" \in DOMAIN b -> b.Text
      [] "Text" \notin DOMAIN b /\ "DetectedText" \in DOMAIN b -> b.DetectedText
      [] OTHER -> <<>>

IsLineBlock(b) == "BlockType" \in DOMAIN b /\ b.BlockType = "LINE"
IsNonEmptyLineBlock(b) == IsLineBlock(b) /\ FieldText(b) # <<>>

RECURSIVE NewlineJoined(_)
NewlineJoined(lines) ==
    IF Len(lines) = 0 THEN <<>>
    ELSE IF Len(lines) = 1 THEN lines[1]
    ELSE NewlineJoined(SubSeq(lines, 1, Len(lines) - 1)) \o <<"\n">> \o lines[Len(lines)]

TextsOf(blocks) == [j \in 1..Len(blocks) |-> FieldText(blocks[j])]

\* the text of one record (batches of this specification hold one record)
TextProduced == module = "ocr" /\ Len(returnData) >= 1 /\ IsText(returnData[1])

\* C5 as stated: the text is the newline-joined text of all LINE blocks of the
\* document, in the order returned.
C5_AllLineBlocks ==
    TextProduced =>
        returnData[1].text
            = NewlineJoined(TextsOf(SelectSeq(Flatten(items[1].pages), IsLineBlock)))

\* C5 amended: the text of a PDF record whose job SUCCEEDED, and of an image record,
\* is the newline-joined text, in the order returned (first response, then each page),
\* of the LINE blocks whose text is not empty; a LINE block with an empty or missing
\* text contributes nothing, like a block of another type.
C5_NonEmptyLineBlocks ==
    TextProduced =>
        returnData[1].text
            = NewlineJoined(TextsOf(SelectSeq(Flatten(items[1].pages), IsNonEmptyLineBlock)))

\* a PDF of two result pages, the second with a LINE block that has no text, read as
\* the two lines a and b
C5_Witness ==
    /\ TextProduced /\ pc = "returned"
    /\ items[1].fileType = PdfMime
    /\ items[1].pages = <<<<[BlockType |-> "LINE", Text |-> <<"a">>]>>,
                          <<[BlockType |-> "LINE"], [BlockType |-> "LINE", DetectedText |-> <<"b">>]>>>>
    /\ returnData[1].text = <<"a", "\n", "b">>

\* the status of the last status response, "undefined" when there was none
LastObserved == JobStatusOf(getResp)

\* C6: when the polling loop has ended with a last observed status other than
\* SUCCEEDED, the next step fails the record with an error carrying that status and
\* issues no call; no result page is fetched while the status is not SUCCEEDED, and no
\* status call follows a FAILED status.
C6_Step ==
    /\ (pc = "polled" /\ LastObserved # "SUCCEEDED") =>
          /\ pc' = "finally"
          /\ caught'[i] = <<JobIncomplete(LastObserved)>>
          /\ callCount' = callCount
          /\ IF continueOnFail
             THEN /\ returnData' = Append(returnData, [error |-> JobIncomplete(LastObserved)])
                  /\ pending' = <<>>
             ELSE /\ returnData' = returnData
                  /\ pending' = <<JobIncomplete(LastObserved)>>
    /\ (pc \in {"poll", "pollGet", "polled"} /\ LastObserved # "SUCCEEDED") =>
          callCount'[i]["GetPage"] = callCount[i]["GetPage"]
    /\ (pc \in {"poll", "pollGet", "polled"} /\ LastObserved = "FAILED") =>
          callCount'[i]["GetStatus"] = callCount[i]["GetStatus"]

\* C6: every step satisfies C6_Step
C6_IncompleteJobFails == [][C6_Step]_vars

\* a record failed at the timeout with IN_PROGRESS as the last status of two polls
C6_Witness ==
    /\ pc = "finally" /\ module = "ocr"
    /\ jobStatus = "IN_PROGRESS"
    /\ callCount[i]["GetStatus"] = 2
    /\ caught[i] = <<JobIncomplete("IN_PROGRESS")>>

CeilDiv(a, b) == -((-a) \div b)

\* C7 as stated: at most ceil(timeoutSeconds/3) + 1 status calls per PDF record, for
\* every configured timeoutSeconds.
C7_PollBound ==
    \A k \in Records :
        callCount[k]["GetStatus"] <= CeilDiv(timeoutSeconds, PollIntervalSecs) + 1

\* C8 as stated, for every timeoutSeconds other than 0 (what 0 does is the matter of
\* C7): the polling loop ends no later than timeoutSeconds plus one poll interval after
\* job start, and not before job start.
C8_EndsWithinTimeoutPlusInterval ==
    (pc = "polled" /\ timeoutSeconds # 0) =>
        elapsed >= 0 /\ elapsed <= timeoutSeconds + PollIntervalSecs

\* the timeout the loop runs with: timeoutSeconds, 120 when timeoutSeconds is 0
EffectiveSecs == IF timeoutSeconds = 0 THEN DefaultTimeoutSecs ELSE timeoutSeconds

NonNegative(n) == IF n < 0 THEN 0 ELSE n

\* C8 amended: the polling loop ends after at most ceil(E/3) iterations, E being
\* timeoutSeconds, or 120 when timeoutSeconds is 0 (no iteration when E is negative);
\* it never ends before job start, and its last iteration begins before start + E, so
\* that it ends no later than E plus the length of that iteration (its sleep of at
\* least 3 seconds and its status call), which is not bounded by E + 3 seconds.
C8_EndsOneIterationAfterDeadline ==
    /\ i \in Records =>
          callCount[i]["GetStatus"] <= NonNegative(CeilDiv(EffectiveSecs, PollIntervalSecs))
    /\ pc = "polled" =>
          /\ elapsed >= 0
          /\ IF callCount[i]["GetStatus"] = 0
             THEN elapsed = 0
             ELSE iterStart < EffectiveSecs /\ elapsed >= iterStart + PollIntervalSecs

\* a job seen SUCCEEDED 8 seconds after its start under a timeout of 4 seconds
C8_Witness ==
    /\ pc = "polled"
    /\ timeoutSeconds = 4
    /\ elapsed = 8
    /\ jobStatus = "SUCCEEDED"

IsUnsupportedRecord(k) ==
    /\ items[k].resolveOk
    /\ items[k].fileType # PdfMime
    /\ ~HasImagePrefix(items[k].fileType)

\* C9: in the OCR node a record whose MIME type is neither application/pdf nor
\* prefixed image/ never has an external call issued for it, and once it has passed the
\* MIME check it has failed with the unsupported-MIME-type error.
C9_UnsupportedMime ==
    module = "ocr" =>
        \A k \in Records :
            IsUnsupportedRecord(k) =>
                /\ NoCalls(k)
                /\ (k < i \/ (k = i /\ pc # "resolve")) =>
                      caught[k] = <<UnsupportedMime(items[k].fileType)>>

\* a tolerant batch whose first record, application/json, gave the error record and
\* whose second record is being processed
C9_Witness ==
    /\ module = "ocr" /\ continueOnFail /\ i = 2
    /\ items[1].resolveOk /\ items[1].fileType = JsonMime
    /\ returnData = <<[error |-> UnsupportedMime(JsonMime)]>>
    /\ ~NoCalls(2)

\* C10: in the OCR node a record whose MIME type starts with image/ never has a
\* put-object, start-job, status, page or delete-object call issued for it, and has
\* exactly one detect-text call once it is finished, whether that call failed or not.
C10_ImageSynchronous ==
    module = "ocr" =>
        \A k \in Records :
            IsImageRecord(k) =>
                /\ \A op \in Ops \ {"DetectDocumentText"} : callCount[k][op] = 0
                /\ callCount[k]["DetectDocumentText"] <= 1
                /\ Done(k) => callCount[k]["DetectDocumentText"] = 1

\* a tolerant batch whose first record, an image, failed in its detect call
C10_Witness ==
    /\ module = "ocr" /\ continueOnFail /\ i = 2
    /\ IsImageRecord(1)
    /\ caught[1] = <<ServiceError("DetectDocumentText")>>
    /\ callCount[1]["DetectDocumentText"] = 1

LacksKey == credentials \in {"noAccessKey", "noSecret"}

NoCallsAtAll == \A k \in Records : NoCalls(k)

\* C11 as stated: in each of the two nodes, with credentials that lack the access key or
\* the secret key, execute never enters the record loop and issues no external call, and
\* once it has acted it has failed with the configuration error.
C11_FailFast ==
    (LacksKey /\ pc # "start") =>
        /\ pc = "aborted"
        /\ thrown = <<ConfigError("credentials")>>
        /\ NoCallsAtAll

\* the text of the first content block of a converse reply, empty when there is none
FirstText(reply) == IF "text" \in DOMAIN reply THEN reply.text ELSE <<>>

ReplyFields == {"response", "usage", "stopReason"}

\* C12: in the Bedrock node a record whose input resolves has at most one converse call
\* at any time and exactly one once it is finished, failed call or not and in both
\* modes; the content sent is the instruction text followed by one image part when the
\* MIME type starts with image/ and by one document part when it is application/pdf; an
\* answered call leaves exactly one record {response, usage, stopReason} at the
\* record's place in the output, response being the reply's first text or "".
C12_OneConverse ==
    module = "bedrock" =>
        /\ \A k \in Records :
              /\ callCount[k]["Converse"] <= 1
              /\ (items[k].resolveOk /\ Done(k)) => callCount[k]["Converse"] = 1
              /\ replies[k] # <<>> =>
                    /\ Len(returnData) >= k
                    /\ DOMAIN returnData[k] = ReplyFields
                    /\ returnData[k].response = FirstText(replies[k][1])
        /\ pc = "converse" =>
              /\ content[1] = [text |-> MessageText]
              /\ HasImagePrefix(items[i].fileType) =>
                    Len(content) = 2 /\ DOMAIN content[2] = {"image"}
              /\ items[i].fileType = PdfMime =>
                    Len(content) = 2 /\ DOMAIN content[2] = {"document"}
        /\ (pc = "returned" /\ \A k \in Records : replies[k] # <<>>) =>
              Len(returnData) = Len(items)

\* the PDF of the second record is about to be sent; the first record, an image, was
\* answered without a text and gave the empty response
C12_Witness ==
    /\ module = "bedrock" /\ pc = "converse" /\ i = 2
    /\ items[1].fileType = PngMime /\ items[2].fileType = PdfMime
    /\ replies[1] = <<[stopReason |-> "end_turn"]>>
    /\ returnData = <<[response |-> <<>>, usage |-> <<>>, stopReason |-> "end_turn"]>>
    /\ Len(content) = 2

\* the put-object call of record k threw
PutThrew(k) == caught[k] = <<ServiceError("PutObject")>>

\* the put-object call of record k was issued and did not throw
PutCompleted(k) == callCount[k]["PutObject"] = 1 /\ ~PutThrew(k)

\* C13 as stated: for a PDF record a delete-object call is issued if and only if its
\* put-object call completed; none is issued when the put-object call itself threw.
C13_DeleteIffUploaded ==
    module = "ocr" =>
        \A k \in Records :
            IsPdfRecord(k) =>
                /\ callCount[k]["DeleteObject"] >= 1 => PutCompleted(k)
                /\ Done(k) => (callCount[k]["DeleteObject"] >= 1 <=> PutCompleted(k))

HasWarningFor(k) ==
    \E j \in 1..Len(returnData) : returnData[j] = [warning |-> DeleteWarning(KeyOf(k))]

\* C13 amended: a delete-object call is issued for a record if and only if its
\* put-object call was issued, whether that call completed or threw: never more
\* deletes than puts, as many once the record is finished, and one delete for a record
\* whose put-object call threw; when that delete fails in tolerant mode the warning
\* record is added although no object was uploaded.
C13_DeleteIffUploadAttempted ==
    module = "ocr" =>
        \A k \in Records :
            /\ callCount[k]["DeleteObject"] <= callCount[k]["PutObject"]
            /\ callCount[k]["PutObject"] <= 1
            /\ Done(k) => callCount[k]["DeleteObject"] = callCount[k]["PutObject"]
            /\ (PutThrew(k) /\ Done(k)) =>
                  /\ callCount[k]["DeleteObject"] = 1
                  /\ (continueOnFail /\ k \in deleteFailed) <=> HasWarningFor(k)

\* a tolerant batch whose first upload threw: the delete was issued all the same, it
\* failed, and the output holds the error and the warning
C13_Witness ==
    /\ module = "ocr" /\ continueOnFail /\ i = 2 /\ pc = "resolve"
    /\ PutThrew(1)
    /\ callCount[1]["DeleteObject"] = 1
    /\ 1 \in deleteFailed
    /\ returnData = <<[error |-> ServiceError("PutObject")],
                      [warning |-> DeleteWarning(KeyOf(1))]>>

\* the errors raised by the checks ahead of the record loop
PreLoopErrors ==
    {ConfigError("credentials"), ConfigError("s3Bucket"), [kind |-> "TypeError"]}

\* C14 as stated: in tolerant mode no error aborts the batch, the configuration errors
\* included: execute never rejects, and every error is an {error: message} record.
C14_NothingAborts ==
    continueOnFail => pc # "aborted" /\ thrown = <<>>

\* the {error} records of the output list, in order
ErrorEntries(rd) == SelectSeq(rd, IsError)

\* the errors caught for records 1..k, in record order
RECURSIVE CaughtUpTo(_)
CaughtUpTo(k) ==
    IF k = 0 THEN <<>>
    ELSE CaughtUpTo(k - 1) \o (IF caught[k] = <<>> THEN <<>> ELSE <<[error |-> caught[k][1]]>>)

\* C14 amended: in tolerant mode no error raised inside the record loop aborts the
\* batch: each is caught for its record, converted to an {error: message} record, and
\* the batch goes on to return an output list.  The configuration errors (missing
\* credentials, missing bucket) are raised ahead of the loop: they abort the batch in
\* tolerant mode too, before any record is processed or any call issued, and nothing
\* is returned.
C14_OnlyPreLoopErrorsAbort ==
    continueOnFail =>
        /\ pc = "aborted" =>
              /\ i = 0
              /\ thrown # <<>> /\ thrown[1] \in PreLoopErrors
              /\ result = <<>> /\ returnData = <<>>
              /\ NoCallsAtAll
        /\ i >= 1 =>
              /\ pc # "aborted" /\ thrown = <<>> /\ pending = <<>>
              /\ ErrorEntries(returnData) = CaughtUpTo(Len(items))
        /\ (module = "ocr" /\ pc # "start" /\ (credentials # "ok" \/ s3Bucket = "")) =>
              pc = "aborted"

\* a tolerant batch returned after two failures of different kinds
C14_Witness ==
    /\ module = "ocr" /\ continueOnFail /\ pc = "returned"
    /\ returnData = <<[error |-> JobStartError], [error |-> UnsupportedMime(JsonMime)]>>
    /\ result = <<returnData>>

\* C15 as stated: at every point of a batch at most one temporary object uploaded by
\* the batch exists in storage.
C15_AtMostOneObject ==
    module = "ocr" => Cardinality(s3) <= 1

\* the keys of the objects whose delete-object call threw
LeftBehind == {KeyOf(k) : k \in deleteFailed}

\* C15 amended: records are processed strictly sequentially: no call is issued for a
\* record after the current one, and every earlier record that uploaded has had its
\* delete-object call return or throw.  The only objects of the batch in storage are
\* the one of the current record and those whose delete-object call threw, which stay
\* behind; so at most one object exists only as long as no deletion has failed.
C15_OneObjectUnlessDeleteFailed ==
    module = "ocr" =>
        /\ \A k \in Records :
              /\ k > i => NoCalls(k)
              /\ (i >= 1 /\ k < i) =>
                    callCount[k]["DeleteObject"] = callCount[k]["PutObject"]
        /\ s3 \ LeftBehind \subseteq (IF i \in Records THEN {KeyOf(i)} ELSE {})
        /\ Cardinality(s3 \ LeftBehind) <= 1
        /\ Cardinality(s3) <= 1 + Cardinality(deleteFailed)

\* the object of the first record outlived its failed deletion and the second record's
\* object has been uploaded next to it
C15_Witness ==
    /\ module = "ocr" /\ i = 2 /\ pc = "startJob"
    /\ deleteFailed = {1}
    /\ s3 = {KeyOf(1), KeyOf(2)}

\* the blocks of the first n result pages of a record's job
RECURSIVE PagesUpTo(_, _)
PagesUpTo(item, n) ==
    IF n = 0 THEN <<>>
    ELSE PagesUpTo(item, n - 1) \o (IF n <= Len(item.pages) THEN item.pages[n] ELSE <<>>)

IsEndless(k) == "endless" \in DOMAIN items[k]

\* in the pagination loop: a token is held, one page call was issued per token
\* received before it, and the blocks of every page received are kept; a record whose
\* job never ends its page sequence has no output and no delete-object call, unless one
\* of its calls threw
C16_Inv ==
    /\ pc = "paginate" =>
          /\ nextToken # Undefined /\ nextToken # ""
          /\ callCount[i]["GetPage"] = pagesServed - 1
          /\ allBlocks = PagesUpTo(items[i], pagesServed)
    /\ \A k \in Records :
          (module = "ocr" /\ IsEndless(k) /\ caught[k] = <<>>) =>
              /\ ~Done(k)
              /\ ~(k = i /\ pc = "finally")
              /\ callCount[k]["DeleteObject"] = 0

\* a step of the pagination loop is one page call and no other call; it reads no
\* clock; it stays in the loop exactly when the call answered with a token, and then
\* adds nothing to the output and leaves the uploaded object alone; it ends the loop
\* with the text of all pages received exactly when the call answered without a token
C16_Step ==
    pc = "paginate" =>
        /\ callCount' = [callCount EXCEPT ![i]["GetPage"] = @ + 1]
        /\ elapsed' = elapsed
        /\ pc' \in {"paginate", "finally"}
        /\ pc' = "paginate" <=> (caught'[i] = <<>> /\ nextToken' # Undefined)
        /\ pc' = "paginate" =>
              /\ returnData' = returnData
              /\ uploadedKey' = uploadedKey /\ s3' = s3
              /\ pagesServed' = pagesServed + 1
        /\ (pc' = "finally" /\ caught'[i] = <<>>) =>
              returnData' = Append(returnData,
                  [text |-> NewlineJoined(TextsOf(SelectSeq(
                                PagesUpTo(items[i], pagesServed + 1), IsNonEmptyLineBlock)))])

\* C16: after a SUCCEEDED status the pagination loop issues one page call per
\* continuation token received and keeps every page's blocks; it ends (calls that throw
\* aside) exactly when a page comes without a token, whatever the timeout and however
\* many pages came before; while every page carries a token it goes on, with no output
\* for the record and no delete-object call.
C16_PaginationUnbounded == []C16_Inv /\ [][C16_Step]_vars

\* a job seen SUCCEEDED past its 1-second timeout, whose every page carries a token:
\* three page calls later the loop is still running, the object still in the bucket
C16_Witness ==
    /\ module = "ocr" /\ pc = "paginate"
    /\ IsEndless(i)
    /\ timeoutSeconds = 1 /\ elapsed > 1
    /\ callCount[i]["GetPage"] = 3
    /\ callCount[i]["DeleteObject"] = 0
    /\ uploadedKey \in s3
    /\ Len(returnData) = i - 1

\* C17: a step taken at the head of the polling loop starts an iteration exactly when
\* the deadline has not been reached, and otherwise ends the loop; a step taken after
\* the sleep of an iteration is its status call, whatever the clock says, and the loop
\* ends on it exactly when the status it brought is SUCCEEDED or FAILED; and once the
\* loop has ended with SUCCEEDED the record goes on without an error, however late the
\* status came.
C17_Step ==
    /\ pc = "poll" =>
          /\ callCount' = callCount
          /\ pc' = (IF elapsed < EffectiveSecs THEN "pollGet" ELSE "polled")
          /\ pc' = "pollGet" => elapsed' >= elapsed + PollIntervalSecs
    /\ pc = "pollGet" =>
          /\ callCount' = [callCount EXCEPT ![i]["GetStatus"] = @ + 1]
          /\ caught'[i] = <<>> =>
                /\ jobStatus' = JobStatusOf(getResp')
                /\ pc' = (IF jobStatus' \in {"SUCCEEDED", "FAILED"} THEN "polled" ELSE "poll")
    /\ (pc = "polled" /\ jobStatus = "SUCCEEDED") =>
          /\ caught'[i] = <<>>
          /\ pending' = <<>>
          /\ pc' \in {"paginate", "finally"}
          /\ pc' = "finally" => Len(returnData') = Len(returnData) + 1
                                    /\ IsText(returnData'[Len(returnData')])

\* C17: every step satisfies C17_Step
C17_DeadlineOnlyAtLoopHead == [][C17_Step]_vars

\* a record that gave its text although its SUCCEEDED status came 8 seconds after the
\* job start, under a timeout of 4 seconds
C17_Witness ==
    /\ module = "ocr" /\ pc = "finally"
    /\ timeoutSeconds = 4 /\ elapsed = 8
    /\ jobStatus = "SUCCEEDED"
    /\ caught[i] = <<>>
    /\ returnData = <<[text |-> <<"a", "\n", "b">>]>>

\* C18: in the Bedrock node a record whose MIME type is neither prefixed image/ nor
\* application/pdf is never failed for its type: the only error it can have is the one
\* of its converse call; it has at most one converse call, exactly one once finished;
\* the content sent for it is the instruction text alone; and an answered call leaves a
\* {response, usage, stopReason} record at its place, not an error.
C18_NoMimeRejection ==
    module = "bedrock" =>
        \A k \in Records :
            IsUnsupportedRecord(k) =>
                /\ caught[k] \in {<<>>, <<ServiceError("Converse")>>}
                /\ callCount[k]["Converse"] <= 1
                /\ Done(k) => callCount[k]["Converse"] = 1
                /\ (k = i /\ pc = "converse") => content = <<[text |-> MessageText]>>
                /\ replies[k] # <<>> =>
                      /\ caught[k] = <<>>
                      /\ DOMAIN returnData[k] = ReplyFields
                      /\ ~IsError(returnData[k])

\* an application/json record answered with the text r
C18_Witness ==
    /\ module = "bedrock" /\ Len(items) >= 1 /\ Done(1)
    /\ items[1].resolveOk /\ items[1].fileType = JsonMime
    /\ callCount[1]["Converse"] = 1
    /\ replies[1] # <<>>
    /\ returnData[1] = [response |-> <<"r">>, usage |-> [totalTokens |-> 1],
                        stopReason |-> "end_turn"]

\* the polling loop ran out of time: it ended without a terminal status
TimedOut == pc = "polled" /\ jobStatus \notin {"SUCCEEDED", "FAILED"}

\* C19: the polling loop of a PDF record runs out of time only once timeoutSeconds
\* seconds have passed since the job start when timeoutSeconds is not 0, and only once
\* 120 seconds have passed when it is 0: a timeout of 0 begins iterations up to second
\* 120 and issues up to 40 status calls; a negative timeout issues no status call, ends
\* the loop at once and fails the record with the status undefined.
C19_EffectiveTimeout ==
    (module = "ocr" /\ i \in Records) =>
        /\ timeoutSeconds # 0 =>
              /\ TimedOut => elapsed >= timeoutSeconds
              /\ pc = "pollGet" => iterStart < timeoutSeconds
        /\ timeoutSeconds = 0 =>
              /\ TimedOut => elapsed >= 120
              /\ pc = "pollGet" => iterStart < 120
              /\ callCount[i]["GetStatus"] <= 40
        /\ timeoutSeconds < 0 =>
              /\ callCount[i]["GetStatus"] = 0
              /\ pc # "pollGet"
              /\ pc \in {"poll", "polled"} => elapsed = 0 /\ jobStatus = Undefined
              /\ (pc = "finally" /\ jobId = "job") =>
                    caught[i] = <<JobIncomplete(Undefined)>>

\* a timeout of 0: the loop ran out of time 120 seconds and 40 status calls after the
\* job start
C19_Witness ==
    /\ module = "ocr" /\ timeoutSeconds = 0
    /\ TimedOut /\ jobStatus = "IN_PROGRESS"
    /\ elapsed = 120
    /\ callCount[i]["GetStatus"] = 40

====
